---- MODULE Spec2Model ----
(***************************************************************************)
(* Runtime configuration injection of the DynCon front-end:                *)
(*   docker-entrypoint.sh writes config.js from the container environment, *)
(*   the page executes config.js, which assigns window.__APP_CONFIG__,     *)
(*   utils/config.ts (getConfig) and utils/useConfig.ts (getClientConfig,  *)
(*   useConfig) read, validate and default that global.                    *)
(*                                                                         *)
(* A text is a sequence of chunks (a chunk is an atomic piece of text, the *)
(* quote character being a chunk of its own).  A JavaScript value is a     *)
(* record [t, v]: t is what typeof-like inspection distinguishes, v the    *)
(* text of a primitive or the identity of an object in the heap.           *)
(***************************************************************************)
EXTENDS Integers, Sequences, FiniteSets, TLC

\* ------------------------------------------------------------- bounds
MaxLen == 2          \* longest API_URL / ENVIRONMENT text, in chunks
MaxRenders == 3      \* renders of the component per page load
MaxCalls == 2        \* direct calls of getConfig per page load

\* ------------------------------------------------------------- texts
Quote == "'"
UrlChunks == {"https://dev.example.com", Quote}
EnvChunks == {"development", Quote}
FlagChunks == {"true", "false", "yes", "1"}

RECURSIVE SeqsUpTo(_, _)
SeqsUpTo(S, n) ==
    IF n = 0 THEN {<<>>}
    ELSE LET shorter == SeqsUpTo(S, n - 1)
         IN  shorter \cup {Append(s, c) : s \in {t \in shorter : Len(t) = n - 1}, c \in S}

\* An environment variable of a process: unset, or set to a text.
Unset == [isSet |-> FALSE, text |-> <<>>]
SetTo(text) == [isSet |-> TRUE, text |-> text]
VarValues(S, n) == {Unset} \cup {SetTo(t) : t \in SeqsUpTo(S, n)}

\* ------------------------------------------------------------- values
Undefined == [t |-> "undefined", v |-> <<>>]
Null == [t |-> "null", v |-> <<>>]
Bool(b) == [t |-> "boolean", v |-> IF b THEN <<"true">> ELSE <<"false">>]
Num(n) == [t |-> "number", v |-> <<n>>]
Str(text) == [t |-> "string", v |-> text]
Ref(id) == [t |-> "object", v |-> <<id>>]
Fn(id) == [t |-> "function", v |-> <<id>>]

Fields == {"apiUrl", "environment", "features", "enableFeatureX", "extra"}
NoFields == [f \in Fields |-> Undefined]

ObjIds == {"DEFAULT_CONFIG", "DEFAULT_CONFIG.features",
           "hook.DEFAULT_CONFIG", "hook.DEFAULT_CONFIG.features",
           "win", "win.features", "array", "srv", "srv.features"}

\* typeof x
TypeOf(x) == IF x.t = "null" THEN "object" ELSE x.t

\* ToBoolean(x), as the && of the accessor's guard applies it
Truthy(x) ==
    CASE x.t \in {"undefined", "null"} -> FALSE
      [] x.t = "boolean" -> x.v = <<"true">>
      [] x.t = "number" -> x.v # <<"0">>
      [] x.t = "string" -> x.v # <<>>
      [] OTHER -> TRUE

\* x.f cannot be read: a property read of undefined or null raises TypeError
ReadThrows(x) == x.t \in {"undefined", "null"}

\* x.f where the read does not throw: a heap object's field, undefined on a primitive
Get(h, x, f) == IF x.t = "object" THEN h[x.v[1]][f] ELSE Undefined

\* the constant of config.ts and its duplicate in useConfig.ts
DefaultApiUrl == <<"https://default.example.com">>
DefaultEnvironment == <<"default">>
DefaultObject(featuresId) ==
    [NoFields EXCEPT !["apiUrl"] = Str(DefaultApiUrl),
                     !["environment"] = Str(DefaultEnvironment),
                     !["features"] = Ref(featuresId)]
DefaultFeatures == [NoFields EXCEPT !["enableFeatureX"] = Bool(FALSE)]

DEFAULT_CONFIG == Ref("DEFAULT_CONFIG")
HookDefaultConfig == Ref("hook.DEFAULT_CONFIG")

\* the heap once both modules are loaded
BaseHeap ==
    [id \in ObjIds |->
        CASE id = "DEFAULT_CONFIG" -> DefaultObject("DEFAULT_CONFIG.features")
          [] id = "hook.DEFAULT_CONFIG" -> DefaultObject("hook.DEFAULT_CONFIG.features")
          [] id \in {"DEFAULT_CONFIG.features", "hook.DEFAULT_CONFIG.features"} -> DefaultFeatures
          [] OTHER -> NoFields]


\* ------------------------------------------------------------- state
VARIABLES
    env,          \* the container's environment: API_URL, ENVIRONMENT, ENABLE_FEATURE_X
    dirWritable,  \* whether /usr/share/nginx/html can be written
    shPc,         \* position of docker-entrypoint.sh
    lastStatus,   \* $? of the entrypoint's last command
    file,         \* /usr/share/nginx/html/config.js
    stdout,       \* lines the entrypoint has echoed
    hasWindow,    \* typeof window !== 'undefined'
    procEnv,      \* process.env of the render-time (server) path
    binding,      \* window.__APP_CONFIG__
    heap,         \* the objects, by identity
    pagePc,       \* position of the page: config.js, first render, effect
    config,       \* the state cell of useConfig's useState
    returned,     \* what useConfig returned at the latest render
    renders,      \* renders of the component so far
    isClient,     \* the state cell of ConfigDisplay's own useState
    display,      \* what ConfigDisplay rendered at the latest render
    result,       \* outcome of the latest direct getConfig() call
    calls,        \* direct getConfig() calls so far
    console       \* console entries, oldest first

vars == <<env, dirWritable, shPc, lastStatus, file, stdout, hasWindow, procEnv,
          binding, heap, pagePc, config, returned, renders, isClient, display,
          result, calls, console>>

containerVars == <<env, dirWritable, shPc, lastStatus, file, stdout>>
hookVars == <<pagePc, config, returned, renders, isClient, display>>

\* ------------------------------------------------------------- docker-entrypoint.sh
\* ${VAR-word}, the expansion without the colon: only an unset VAR gets the word
ExpandOrDefault_UnsetOnly(var, word) == IF var.isSet THEN var.text ELSE word

\* ${VAR:-word}: word when VAR is unset or null (empty), else VAR's text
ExpandOrDefault(var, word) == IF var.isSet /\ var.text # <<>> THEN var.text ELSE word

NoFile == [exists |-> FALSE, apiUrl |-> <<>>, environment |-> <<>>, flag |-> <<>>]

\* The here-document: the three texts spliced into the fixed template
\*   apiUrl: '<apiUrl>',  environment: '<environment>',  enableFeatureX: <flag>
HereDoc(e) ==
    [exists |-> TRUE,
     apiUrl |-> ExpandOrDefault(e.API_URL, <<"https://default.example.com">>),
     environment |-> ExpandOrDefault(e.ENVIRONMENT, <<"production">>),
     flag |-> ExpandOrDefault(e.ENABLE_FEATURE_X, <<"false">>)]

\* echo "Generating..." ; cat > config.js << EOF ... EOF
\* A failed redirection makes the cat command fail; the script has no set -e
\* and does not test $?, so it goes on to the next command either way.
GenerateConfig ==
    /\ shPc = "generate"
    /\ IF dirWritable
       THEN file' = HereDoc(env) /\ lastStatus' = 0
       ELSE file' = file /\ lastStatus' = 1
    /\ stdout' = Append(stdout, <<"Generating runtime configuration...">>)
    /\ shPc' = "summary"
    /\ UNCHANGED <<env, dirWritable, hasWindow, procEnv, binding, heap, hookVars,
                   result, calls, console>>

\* the four echo lines after the here-document
EchoSummary ==
    /\ shPc = "summary"
    /\ stdout' = stdout \o
          << <<"Configuration generated successfully!">>,
             <<"API_URL: ">> \o ExpandOrDefault(env.API_URL, <<"https://default.example.com">>),
             <<"ENVIRONMENT: ">> \o ExpandOrDefault(env.ENVIRONMENT, <<"production">>),
             <<"ENABLE_FEATURE_X: ">> \o ExpandOrDefault(env.ENABLE_FEATURE_X, <<"false">>) >>
    /\ lastStatus' = 0
    /\ shPc' = "exec"
    /\ UNCHANGED <<env, dirWritable, file, hasWindow, procEnv, binding, heap, hookVars,
                   result, calls, console>>

\* exec "$@": the shell is replaced by the serving process
ExecServer ==
    /\ shPc = "exec"
    /\ shPc' = "serving"
    /\ UNCHANGED <<env, dirWritable, lastStatus, file, stdout, hasWindow, procEnv,
                   binding, heap, hookVars, result, calls, console>>

\* ------------------------------------------------------------- config.js in the browser
\* Position of the first quote chunk of a text, Len+1 when it has none
RECURSIVE FirstQuote(_, _)
FirstQuote(text, i) ==
    IF i > Len(text) THEN i
    ELSE IF text[i] = Quote THEN i ELSE FirstQuote(text, i + 1)

\* '<text>' as the script's tokenizer reads it: the literal runs from the opening
\* quote to the first quote after it; anything left before the template's comma is
\* a token that cannot follow a string literal.
StringLiteral(text) ==
    LET k == FirstQuote(text, 1)
    IN  IF k = Len(text) + 1
        THEN [error |-> "none", value |-> Str(text)]
        ELSE [error |-> "SyntaxError", value |-> Undefined]

\* <flag> as an expression: a boolean literal, a numeric literal, or else an
\* identifier, which names no variable of the page.
FlagExpression(text) ==
    CASE text = <<"true">> -> [error |-> "none", value |-> Bool(TRUE)]
      [] text = <<"false">> -> [error |-> "none", value |-> Bool(FALSE)]
      [] text \in {<<"1">>, <<"0">>} -> [error |-> "none", value |-> Num(text[1])]
      [] OTHER -> [error |-> "ReferenceError", value |-> Undefined]

\* Running the file: the error that stops it (none when it runs through) and the
\* three values of the object literal.  A file that is not there is not run.
RunConfigJs(f) ==
    LET a == StringLiteral(f.apiUrl)
        e == StringLiteral(f.environment)
        x == FlagExpression(f.flag)
        error == CASE ~f.exists -> "NotFound"
                   [] "SyntaxError" \in {a.error, e.error} -> "SyntaxError"
                   [] x.error # "none" -> x.error
                   [] OTHER -> "none"
    IN  [error |-> error, apiUrl |-> a.value, environment |-> e.value, flag |-> x.value]

Entry(level, message) == <<level, message>>

\* config.ts logs once when the module is evaluated where there is a window
ModuleLoadedEntry == Entry("log", "Config module loaded on client side")

\* <Script src="/config.js" strategy="beforeInteractive">: the served file runs
\* before the application; on success it assigns the global and logs.  The
\* application's modules are evaluated next.
LoadPage ==
    /\ shPc = "serving"
    /\ pagePc = "none"
    /\ LET run == RunConfigJs(file)
       IN  IF run.error = "none"
           THEN /\ heap' = [heap EXCEPT
                      !["win"] = [NoFields EXCEPT !["apiUrl"] = run.apiUrl,
                                                  !["environment"] = run.environment,
                                                  !["features"] = Ref("win.features")],
                      !["win.features"] = [NoFields EXCEPT !["enableFeatureX"] = run.flag]]
                /\ binding' = Ref("win")
                /\ console' = console \o
                                 <<Entry("log", "Runtime config loaded:"), ModuleLoadedEntry>>
           ELSE /\ UNCHANGED <<heap, binding>>
                /\ console' = console \o <<Entry("error", run.error), ModuleLoadedEntry>>
    /\ pagePc' = "loaded"
    /\ UNCHANGED <<containerVars, hasWindow, procEnv, config, returned, renders,
                   isClient, display, result, calls>>


\* ------------------------------------------------------------- validateConfig
\* validation that forgets the type of the flag
validateConfig_NoFlagType(h, c) ==
    CASE TypeOf(c) # "object" -> "false"
      [] ReadThrows(c) -> "throw"
      [] TypeOf(Get(h, c, "apiUrl")) # "string" -> "false"
      [] TypeOf(Get(h, c, "environment")) # "string" -> "false"
      [] TypeOf(Get(h, c, "features")) # "object" -> "false"
      [] ReadThrows(Get(h, c, "features")) -> "throw"
      [] OTHER -> "true"

\* The && chain, left to right, stopping at the first false operand.  A property
\* read of undefined or null raises a TypeError instead of yielding an operand.
validateConfig(h, c) ==
    CASE TypeOf(c) # "object" -> "false"
      [] ReadThrows(c) -> "throw"
      [] TypeOf(Get(h, c, "apiUrl")) # "string" -> "false"
      [] TypeOf(Get(h, c, "environment")) # "string" -> "false"
      [] TypeOf(Get(h, c, "features")) # "object" -> "false"
      [] ReadThrows(Get(h, c, "features")) -> "throw"
      [] TypeOf(Get(h, Get(h, c, "features"), "enableFeatureX")) # "boolean" -> "false"
      [] OTHER -> "true"

\* windowConfig && validateConfig(windowConfig): a falsy binding is never validated
GuardOutcome(h, wc) == IF ~Truthy(wc) THEN "false" ELSE validateConfig(h, wc)

Threw == [t |-> "throw", v |-> <<"TypeError">>]

ValidEntry == Entry("log", "Valid runtime config loaded:")
FallbackEntry == Entry("warn", "Invalid or missing runtime config, using fallback")

\* ------------------------------------------------------------- getConfig (config.ts)
\* process.env.NAME: undefined when unset, else the text
ProcessEnv(var) == IF var.isSet THEN Str(var.text) ELSE Undefined

\* a || b
OrElse(a, b) == IF Truthy(a) THEN a ELSE b

\* the object literal of the server-side return, allocated afresh
ServerObject(h, pe) ==
    [h EXCEPT
       !["srv"] = [NoFields EXCEPT
           !["apiUrl"] = OrElse(ProcessEnv(pe.NEXT_PUBLIC_API_URL),
                                Get(h, DEFAULT_CONFIG, "apiUrl")),
           !["environment"] = OrElse(ProcessEnv(pe.NODE_ENV),
                                     Get(h, DEFAULT_CONFIG, "environment")),
           !["features"] = Ref("srv.features")],
       !["srv.features"] = [NoFields EXCEPT
           !["enableFeatureX"] =
               Bool(ProcessEnv(pe.NEXT_PUBLIC_ENABLE_FEATURE_X) = Str(<<"true">>))]]

\* an accessor that returns a copy of the recognised fields, { apiUrl, environment,
\* features }, instead of the global itself
getConfig_Copy(h, win, wc, pe) ==
    IF win
    THEN CASE GuardOutcome(h, wc) = "true" ->
                [value |-> Ref("srv"), entries |-> <<ValidEntry>>,
                 heap |-> [h EXCEPT !["srv"] =
                             [NoFields EXCEPT !["apiUrl"] = Get(h, wc, "apiUrl"),
                                              !["environment"] = Get(h, wc, "environment"),
                                              !["features"] = Get(h, wc, "features")]]]
           [] GuardOutcome(h, wc) = "throw" ->
                [value |-> Threw, entries |-> <<>>, heap |-> h]
           [] OTHER ->
                [value |-> DEFAULT_CONFIG, entries |-> <<FallbackEntry>>, heap |-> h]
    ELSE [value |-> Ref("srv"), entries |-> <<>>, heap |-> ServerObject(h, pe)]

\* an accessor that falls back without a word on the console
getConfig_Silent(h, win, wc, pe) ==
    IF win
    THEN CASE GuardOutcome(h, wc) = "true" ->
                [value |-> wc, entries |-> <<ValidEntry>>, heap |-> h]
           [] GuardOutcome(h, wc) = "throw" ->
                [value |-> Threw, entries |-> <<>>, heap |-> h]
           [] OTHER ->
                [value |-> DEFAULT_CONFIG, entries |-> <<>>, heap |-> h]
    ELSE [value |-> Ref("srv"), entries |-> <<>>, heap |-> ServerObject(h, pe)]

\* an accessor without the typeof window test: it reads the global everywhere
getConfig_NoWindowTest(h, win, wc, pe) ==
    CASE GuardOutcome(h, wc) = "true" ->
            [value |-> wc, entries |-> <<ValidEntry>>, heap |-> h]
      [] GuardOutcome(h, wc) = "throw" ->
            [value |-> Threw, entries |-> <<>>, heap |-> h]
      [] OTHER ->
            [value |-> DEFAULT_CONFIG, entries |-> <<FallbackEntry>>, heap |-> h]

\* What a call yields: the value returned (Threw when a TypeError escapes), the
\* console entries it emits and the heap it leaves.
getConfig(h, win, wc, pe) ==
    IF win
    THEN CASE GuardOutcome(h, wc) = "true" ->
                [value |-> wc, entries |-> <<ValidEntry>>, heap |-> h]
           [] GuardOutcome(h, wc) = "throw" ->
                [value |-> Threw, entries |-> <<>>, heap |-> h]
           [] OTHER ->
                [value |-> DEFAULT_CONFIG, entries |-> <<FallbackEntry>>, heap |-> h]
    ELSE [value |-> Ref("srv"), entries |-> <<>>, heap |-> ServerObject(h, pe)]

\* a caller invokes the exported getConfig()
GetConfig ==
    /\ calls < MaxCalls
    /\ pagePc # "none"
    /\ LET r == getConfig(heap, hasWindow, binding, procEnv)
       IN  /\ result' = r.value
           /\ console' = console \o r.entries
           /\ heap' = r.heap
    /\ calls' = calls + 1
    /\ UNCHANGED <<containerVars, hasWindow, procEnv, binding, hookVars>>

\* ------------------------------------------------------------- useConfig.ts
\* the client-side getter: the browser branch of getConfig over the hook's own
\* DEFAULT_CONFIG, which it also returns where there is no window
getClientConfig(h, win, wc) ==
    IF win
    THEN CASE GuardOutcome(h, wc) = "true" ->
                [value |-> wc, entries |-> <<ValidEntry>>]
           [] GuardOutcome(h, wc) = "throw" ->
                [value |-> Threw, entries |-> <<>>]
           [] OTHER ->
                [value |-> HookDefaultConfig, entries |-> <<FallbackEntry>>]
    ELSE [value |-> HookDefaultConfig, entries |-> <<>>]

\* ------------------------------------------------------------- ConfigDisplay
\* JSON.stringify(config): the fields that are not undefined, features nested
JsonOf(h, c) ==
    LET own(f) == IF Get(h, c, f) = Undefined THEN <<>>
                  ELSE <<[k |-> f, v |-> Get(h, c, f)]>>
        nested == IF Get(h, c, "features").t # "object"
                     \/ Get(h, Get(h, c, "features"), "enableFeatureX") = Undefined
                  THEN <<>>
                  ELSE <<[k |-> "features.enableFeatureX",
                          v |-> Get(h, Get(h, c, "features"), "enableFeatureX")]>>
    IN  own("apiUrl") \o own("environment") \o own("features") \o nested \o own("extra")

\* config.features?.enableFeatureX
OptionalFlag(h, c) ==
    IF ReadThrows(Get(h, c, "features")) THEN Undefined
    ELSE Get(h, Get(h, c, "features"), "enableFeatureX")

DefaultSentence == "Using default configuration (runtime config not loaded)"
RuntimeSentence == "Configuration loaded at runtime from environment variables"

\* nothing of the component is on the page
NoDisplay ==
    [rendered |-> FALSE, apiUrl |-> Undefined, environment |-> Undefined,
     featureX |-> "", client |-> FALSE, dumpOf |-> Undefined, dump |-> <<>>,
     sentence |-> ""]

\* the element ConfigDisplay returns for the hook's value c and its own flag:
\* the three lines always, the dump and the sentence only under isClient
ConfigDisplay(h, c, client) ==
    [rendered |-> TRUE,
     apiUrl |-> Get(h, c, "apiUrl"),
     environment |-> Get(h, c, "environment"),
     featureX |-> IF Truthy(OptionalFlag(h, c)) THEN "Yes" ELSE "No",
     client |-> client,
     dumpOf |-> IF client THEN c ELSE Undefined,
     dump |-> IF client THEN JsonOf(h, c) ELSE <<>>,
     sentence |-> IF ~client THEN ""
                  ELSE IF Get(h, c, "apiUrl") = Str(<<"https://default.example.com">>)
                       THEN DefaultSentence ELSE RuntimeSentence]

\* a first render whose flag starts from the environment,
\* useState(typeof window !== 'undefined')
FirstRender_ClientFromStart ==
    /\ pagePc = "loaded"
    /\ config' = HookDefaultConfig
    /\ returned' = HookDefaultConfig
    /\ renders' = 1
    /\ isClient' = hasWindow
    /\ display' = ConfigDisplay(heap, HookDefaultConfig, hasWindow)
    /\ pagePc' = IF hasWindow THEN "mounted" ELSE "prerendered"
    /\ UNCHANGED <<containerVars, hasWindow, procEnv, binding, heap, result, calls, console>>

\* a first render that initialises the cell from the global,
\* useState(() => getClientConfig())
FirstRender_ReadsGlobal ==
    /\ pagePc = "loaded"
    /\ getClientConfig(heap, hasWindow, binding).value # Threw
    /\ config' = getClientConfig(heap, hasWindow, binding).value
    /\ returned' = config'
    /\ renders' = 1
    /\ isClient' = FALSE
    /\ display' = ConfigDisplay(heap, config', FALSE)
    /\ pagePc' = IF hasWindow THEN "mounted" ELSE "prerendered"
    /\ UNCHANGED <<containerVars, hasWindow, procEnv, binding, heap, result, calls, console>>

\* first render of ConfigDisplay: useState(DEFAULT_CONFIG) creates the hook's
\* cell and the hook returns it, useState(false) creates isClient, and the
\* element is built from both.  Without a window (prerendering) effects are
\* never run.
FirstRender ==
    /\ pagePc = "loaded"
    /\ config' = HookDefaultConfig
    /\ returned' = HookDefaultConfig
    /\ renders' = 1
    /\ isClient' = FALSE
    /\ display' = ConfigDisplay(heap, HookDefaultConfig, FALSE)
    /\ pagePc' = IF hasWindow THEN "mounted" ELSE "prerendered"
    /\ UNCHANGED <<containerVars, hasWindow, procEnv, binding, heap, result, calls, console>>

\* ConfigDisplay's own useEffect(() => setIsClient(true), []).  It is the second
\* effect of the component: the effects of one component run in the order of
\* their hooks, in one pass after the commit, and an effect that throws ends
\* the pass, so this one runs only when the hook's effect has returned.
DisplayEffect(hookEffectThrew) ==
    IF hookEffectThrew THEN isClient' = isClient ELSE isClient' = TRUE

\* the useEffect(..., []) callback, run once after the first render is committed.
\* If getClientConfig throws, the callback ends there: no setConfig, no log;
\* the error is not caught by the component, whose element leaves the page.
\* The component's second effect follows in the same pass; both state updates
\* are rendered together by the next render.
HookEffect ==
    /\ pagePc = "mounted"
    /\ LET r == getClientConfig(heap, hasWindow, binding)
       IN  /\ IF r.value = Threw
              THEN /\ pagePc' = "crashed"
                   /\ console' = Append(console, Entry("error", "TypeError"))
                   /\ display' = NoDisplay
                   /\ UNCHANGED config
              ELSE /\ pagePc' = "hydrated"
                   /\ config' = r.value
                   /\ console' = console \o r.entries \o
                        <<Entry("log", "useConfig: Client-side config updated after hydration:")>>
                   /\ UNCHANGED display
           /\ DisplayEffect(r.value = Threw)
    /\ UNCHANGED <<containerVars, hasWindow, procEnv, binding, heap, returned, renders,
                   result, calls>>

\* a later render: the hook returns the cell and the element is rebuilt from
\* it and from isClient; the empty dependency lists keep both effects from
\* running again
ReRender ==
    /\ pagePc = "hydrated"
    /\ renders < MaxRenders
    /\ returned' = config
    /\ renders' = renders + 1
    /\ display' = ConfigDisplay(heap, config, isClient)
    /\ UNCHANGED <<containerVars, hasWindow, procEnv, binding, heap, pagePc, config,
                   isClient, result, calls, console>>


\* ------------------------------------------------------------- the container and its page
\* public/config.js of the repository, copied into the image by the build
PublicConfigJs ==
    [exists |-> TRUE, apiUrl |-> <<"https://api.example.com">>,
     environment |-> <<"production">>, flag |-> <<"true">>]

FlagValues == {Unset, SetTo(<<>>)} \cup {SetTo(<<c>>) : c \in FlagChunks}

NoProcEnv == [NEXT_PUBLIC_API_URL |-> Unset, NODE_ENV |-> Unset,
              NEXT_PUBLIC_ENABLE_FEATURE_X |-> Unset]

PageStart ==
    /\ config = Undefined
    /\ returned = Undefined
    /\ renders = 0
    /\ isClient = FALSE
    /\ display = NoDisplay
    /\ result = Undefined
    /\ calls = 0

Init ==
    /\ env \in [API_URL : VarValues(UrlChunks, MaxLen),
                ENVIRONMENT : VarValues(EnvChunks, MaxLen),
                ENABLE_FEATURE_X : FlagValues]
    /\ dirWritable \in BOOLEAN
    /\ shPc = "generate"
    /\ lastStatus = 0
    /\ file \in {NoFile, PublicConfigJs}
    /\ stdout = <<>>
    /\ hasWindow = TRUE
    /\ procEnv = NoProcEnv
    /\ binding = Undefined
    /\ heap = BaseHeap
    /\ pagePc = "none"
    /\ console = <<>>
    /\ PageStart

Next ==
    \/ GenerateConfig
    \/ EchoSummary
    \/ ExecServer
    \/ LoadPage
    \/ FirstRender
    \/ HookEffect
    \/ ReRender
    \/ GetConfig

Spec == Init /\ [][Next]_vars

\* ------------------------------------------------------------- the page under any global
\* What window.__APP_CONFIG__ may hold when the application starts
BindingValues ==
    {Undefined, Null, Num("0"), Num("1"), Str(<<"text">>),
     Ref("win"), Ref("array"), Fn("f")}

ApiUrlValues == {Str(<<"https://x">>), Num("1"), Undefined}
EnvironmentValues == {Str(<<"y">>), Num("1"), Undefined}
FeaturesValues == {Ref("win.features"), Ref("array"), Null, Num("1"), Undefined}
FlagFieldValues == {Bool(TRUE), Bool(FALSE), Str(<<"true">>), Undefined}
ExtraValues == {Undefined, Str(<<"more">>)}

WinHeap(a, e, f, x, more) ==
    [BaseHeap EXCEPT
       !["win"] = [NoFields EXCEPT !["apiUrl"] = a, !["environment"] = e,
                                   !["features"] = f, !["extra"] = more],
       !["win.features"] = [NoFields EXCEPT !["enableFeatureX"] = x]]

WinHeaps ==
    {WinHeap(a, e, f, x, more) :
        a \in ApiUrlValues, e \in EnvironmentValues, f \in FeaturesValues,
        x \in FlagFieldValues, more \in ExtraValues}

ProcEnvs ==
    [NEXT_PUBLIC_API_URL : {Unset, SetTo(<<>>), SetTo(<<"https://dev.example.com">>)},
     NODE_ENV : {Unset, SetTo(<<>>), SetTo(<<"development">>)},
     NEXT_PUBLIC_ENABLE_FEATURE_X : FlagValues]

InitPage ==
    /\ env = [API_URL |-> Unset, ENVIRONMENT |-> Unset, ENABLE_FEATURE_X |-> Unset]
    /\ dirWritable = TRUE
    /\ shPc = "serving"
    /\ lastStatus = 0
    /\ file = NoFile
    /\ stdout = <<>>
    /\ \/ /\ hasWindow = TRUE
          /\ procEnv = NoProcEnv
          /\ \/ binding = Ref("win") /\ heap \in WinHeaps
             \/ binding \in BindingValues \ {Ref("win")} /\ heap = BaseHeap
       \/ /\ hasWindow = FALSE
          /\ procEnv \in ProcEnvs
          /\ binding \in {Undefined, Ref("win")}
          /\ heap = WinHeap(Str(<<"https://x">>), Str(<<"y">>), Ref("win.features"),
                            Bool(TRUE), Undefined)
    /\ pagePc = "loaded"
    /\ console = IF hasWindow THEN <<ModuleLoadedEntry>> ELSE <<>>
    /\ PageStart

\* another script of the page assigns the global after the hook has read it
BindingChanged ==
    /\ hasWindow
    /\ pagePc = "hydrated"
    /\ \E b \in BindingValues : b # binding /\ binding' = b
    /\ UNCHANGED <<containerVars, hasWindow, procEnv, heap, hookVars, result, calls, console>>

NextPage ==
    \/ FirstRender
    \/ HookEffect
    \/ ReRender
    \/ GetConfig
    \/ BindingChanged

SpecPage == InitPage /\ [][NextPage]_vars


\* ============================================================= properties
\* the here-document has been written by this run of the entrypoint
Written == dirWritable /\ shPc # "generate"
\* the redirection of the here-document has failed
WriteFailed == ~dirWritable /\ shPc # "generate"

HasQuote(text) == \E i \in 1..Len(text) : text[i] = Quote

\* C1: for every value of ENABLE_FEATURE_X the flag written into config.js is the
\* boolean true exactly when the variable's text is exactly "true", and the
\* boolean false in every other case (unset, empty, any other text).
C1_FlagIsExactMatch ==
    Written =>
        FlagExpression(file.flag) =
            [error |-> "none", value |-> Bool(env.ENABLE_FEATURE_X = SetTo(<<"true">>))]

\* a setting whose texts hold no quote and whose flag, when set, is a boolean literal
WellFormed(e) ==
    /\ ~HasQuote(e.API_URL.text)
    /\ ~HasQuote(e.ENVIRONMENT.text)
    /\ e.ENABLE_FEATURE_X \in {Unset, SetTo(<<>>), SetTo(<<"true">>), SetTo(<<"false">>)}

UnsetOrEmpty(var) == var \in {Unset, SetTo(<<>>)}

\* C2: for every well-formed setting, the object the generated file assigns to
\* window.__APP_CONFIG__ has apiUrl = API_URL, or "https://default.example.com"
\* when API_URL is unset or empty; environment = ENVIRONMENT, or "production" when
\* unset or empty; features.enableFeatureX = the flag, false when unset.  With
\* no variable set it is the object of the three defaults.
C2_FileAssignsMappedValues ==
    (Written /\ WellFormed(env) /\ pagePc # "none") =>
        /\ binding = Ref("win")
        /\ heap["win"]["apiUrl"] =
              IF UnsetOrEmpty(env.API_URL) THEN Str(<<"https://default.example.com">>)
              ELSE Str(env.API_URL.text)
        /\ heap["win"]["environment"] =
              IF UnsetOrEmpty(env.ENVIRONMENT) THEN Str(<<"production">>)
              ELSE Str(env.ENVIRONMENT.text)
        /\ heap["win"]["features"].t = "object"
        /\ Get(heap, heap["win"]["features"], "enableFeatureX") =
              Bool(env.ENABLE_FEATURE_X = SetTo(<<"true">>))
        /\ heap["win"]["extra"] = Undefined

C2_Witness ==
    /\ Written
    /\ pagePc = "loaded"
    /\ env = [API_URL |-> SetTo(<<"https://dev.example.com">>),
              ENVIRONMENT |-> Unset,
              ENABLE_FEATURE_X |-> SetTo(<<"true">>)]
    /\ binding = Ref("win")
    /\ heap["win"]["apiUrl"] = Str(<<"https://dev.example.com">>)
    /\ heap["win"]["environment"] = Str(<<"production">>)
    /\ heap["win.features"]["enableFeatureX"] = Bool(TRUE)

\* C3: if the write of config.js fails, the entrypoint ends with a non-zero
\* status and the serving process (the command passed as "$@") is never started.
C3_NoServeAfterFailedWrite == WriteFailed => shPc # "serving"


\* ------------------------------------------------------------- the accessor's steps
\* a direct call of getConfig() has just returned (or thrown)
GetConfigStep == calls' = calls + 1
\* the effect of useConfig has just run to its end, or has thrown
EffectStep == pagePc = "mounted" /\ pagePc' # "mounted"

\* the shape AppConfig, field by field
IsAppConfigShape(h, c) ==
    /\ c.t = "object"
    /\ h[c.v[1]]["apiUrl"].t = "string"
    /\ h[c.v[1]]["environment"].t = "string"
    /\ h[c.v[1]]["features"].t = "object"
    /\ h[h[c.v[1]]["features"].v[1]]["enableFeatureX"].t = "boolean"

\* the global is absent; or an object without a features field; or an object
\* with apiUrl or environment that is no string, with features a number, string
\* or boolean, or with a features object whose enableFeatureX is no boolean.
\* (features: null next to a well-typed apiUrl and environment is C7's case.)
AbsentOrMistyped(h, c) ==
    \/ c = Undefined
    \/ /\ c.t = "object"
       /\ LET o == h[c.v[1]]
          IN  \/ o["features"] = Undefined
              \/ o["apiUrl"].t # "string"
              \/ o["environment"].t # "string"
              \/ o["features"].t \in {"number", "string", "boolean"}
              \/ /\ o["features"].t = "object"
                 /\ h[o["features"].v[1]]["enableFeatureX"].t # "boolean"

\* C4: on the browser path getConfig and the hook's getClientConfig return the
\* hardcoded DEFAULT_CONFIG itself, untouched, never an object merged from the
\* global, whenever the global is absent, lacks features, or has a required
\* field of the wrong primitive type.
C4_DefaultAsAWhole ==
    [][ /\ (GetConfigStep /\ hasWindow /\ AbsentOrMistyped(heap, binding)) =>
             /\ result' = DEFAULT_CONFIG
             /\ heap' = heap
             /\ heap'["DEFAULT_CONFIG"] = DefaultObject("DEFAULT_CONFIG.features")
             /\ heap'["DEFAULT_CONFIG.features"] = DefaultFeatures
        /\ (EffectStep /\ AbsentOrMistyped(heap, binding)) =>
             /\ pagePc' = "hydrated"
             /\ config' = HookDefaultConfig
             /\ heap' = heap
             /\ heap'["hook.DEFAULT_CONFIG"] = DefaultObject("hook.DEFAULT_CONFIG.features")
             /\ heap'["hook.DEFAULT_CONFIG.features"] = DefaultFeatures
      ]_vars

C4_Witness ==
    /\ hasWindow
    /\ calls = 1
    /\ pagePc = "hydrated"
    /\ binding = Ref("win")
    /\ heap["win"]["apiUrl"] = Str(<<"https://x">>)
    /\ heap["win"]["environment"] = Str(<<"y">>)
    /\ heap["win"]["features"] = Undefined
    /\ result = DEFAULT_CONFIG
    /\ config = HookDefaultConfig

\* C5: on the browser path, when the global passes structural validation,
\* getConfig returns that very object, its fields (extra ones included) as they
\* were; and no step of the accessor or of the hook writes the global or any
\* object.
C5_VerbatimAndNoWrite ==
    [][ /\ (GetConfigStep /\ hasWindow /\ IsAppConfigShape(heap, binding)) =>
             /\ result' = binding
             /\ heap'[binding.v[1]] = heap[binding.v[1]]
        /\ (EffectStep /\ IsAppConfigShape(heap, binding)) =>
             /\ config' = binding
             /\ heap'[binding.v[1]] = heap[binding.v[1]]
        /\ (hasWindow /\ (GetConfigStep \/ pagePc' # pagePc \/ renders' # renders)
              /\ pagePc # "none") =>
             /\ binding' = binding
             /\ heap' = heap
      ]_vars

C5_Witness ==
    /\ hasWindow
    /\ calls = 1
    /\ binding = Ref("win")
    /\ IsAppConfigShape(heap, binding)
    /\ heap["win"]["extra"] = Str(<<"more">>)
    /\ result = Ref("win")
    /\ pagePc = "hydrated"
    /\ config = Ref("win")

C7_ReadNeverThrows ==
    /\ pagePc # "crashed"
    /\ result # Threw
    /\ (hasWindow /\ calls > 0) => result.t = "object"


\* the latest console entry
LastEntry == console[Len(console)]

\* C8: when the browser-path accessor falls back to the default, an absent
\* global and a present but malformed one produce different diagnostics:
\* informational for the absent one, a warning for the malformed one.
C8_AbsentVersusInvalid ==
    (hasWindow /\ calls = 1 /\ pagePc = "loaded" /\ result = DEFAULT_CONFIG) =>
        /\ console = <<ModuleLoadedEntry, LastEntry>>
        /\ IF binding = Undefined
           THEN LastEntry[1] \in {"log", "info"}
           ELSE LastEntry[1] = "warn"

\* C8 as amended: every fall-back of getConfig and of the hook's getClientConfig
\* on the browser path emits exactly one diagnostic, the warning "Invalid or
\* missing runtime config, using fallback", the same for an absent global as
\* for a malformed one.
C8_OneWarningForBoth ==
    [][ /\ (GetConfigStep /\ hasWindow /\ result' = DEFAULT_CONFIG) =>
              console' = Append(console, FallbackEntry)
        /\ (EffectStep /\ pagePc' = "hydrated" /\ config' = HookDefaultConfig) =>
              /\ Len(console') = Len(console) + 2
              /\ console'[Len(console) + 1] = FallbackEntry
      ]_vars

C8_Witness ==
    /\ hasWindow
    /\ calls = 1
    /\ pagePc = "loaded"
    /\ binding = Undefined
    /\ result = DEFAULT_CONFIG
    /\ console = <<ModuleLoadedEntry, FallbackEntry>>

\* C9: without a browser global getConfig does not look at __APP_CONFIG__: it
\* returns a new object whose fields come from NEXT_PUBLIC_API_URL, NODE_ENV and
\* NEXT_PUBLIC_ENABLE_FEATURE_X, each field equal to DEFAULT_CONFIG's field when
\* its variable is unset.
C9_ServerPathFromProcessEnv ==
    (~hasWindow /\ calls > 0) =>
        /\ result = Ref("srv")
        /\ result # binding
        /\ Get(heap, result, "apiUrl") =
              IF UnsetOrEmpty(procEnv.NEXT_PUBLIC_API_URL)
              THEN heap["DEFAULT_CONFIG"]["apiUrl"]
              ELSE Str(procEnv.NEXT_PUBLIC_API_URL.text)
        /\ Get(heap, result, "environment") =
              IF UnsetOrEmpty(procEnv.NODE_ENV)
              THEN heap["DEFAULT_CONFIG"]["environment"]
              ELSE Str(procEnv.NODE_ENV.text)
        /\ Get(heap, Get(heap, result, "features"), "enableFeatureX") =
              IF procEnv.NEXT_PUBLIC_ENABLE_FEATURE_X = Unset
              THEN heap["DEFAULT_CONFIG.features"]["enableFeatureX"]
              ELSE Bool(procEnv.NEXT_PUBLIC_ENABLE_FEATURE_X.text = <<"true">>)
        /\ console = <<>>

C9_Witness ==
    /\ ~hasWindow
    /\ calls = 1
    /\ binding = Ref("win")
    /\ procEnv = [NEXT_PUBLIC_API_URL |-> Unset,
                  NODE_ENV |-> SetTo(<<"development">>),
                  NEXT_PUBLIC_ENABLE_FEATURE_X |-> SetTo(<<"true">>)]
    /\ result = Ref("srv")
    /\ heap["srv"]["apiUrl"] = Str(<<"https://default.example.com">>)
    /\ heap["srv"]["environment"] = Str(<<"development">>)
    /\ heap["srv.features"]["enableFeatureX"] = Bool(TRUE)

\* C10: end to end, for every setting without quote characters, the object the
\* Materializer wrote passes validateConfig once loaded, so the hook's Hydrated
\* value is that object, with the apiUrl and environment the Materializer
\* chose: no flag value sends the page back to DEFAULT_CONFIG.
C10_HydratedIsWhatWasWritten ==
    (/\ Written
     /\ ~HasQuote(env.API_URL.text)
     /\ ~HasQuote(env.ENVIRONMENT.text)
     /\ pagePc = "hydrated") =>
        /\ validateConfig(heap, binding) = "true"
        /\ config = binding
        /\ Get(heap, config, "apiUrl") = Str(file.apiUrl)
        /\ Get(heap, config, "environment") = Str(file.environment)


\* C11: every render of ConfigDisplay that has isClient true, and so shows the
\* raw dump and the default/runtime sentence, comes after the hook's transition
\* Default -> Hydrated and shows the hydrated value; the first render shows
\* neither the dump nor the sentence; no dump is ever made of the pre-hydration
\* default while the hook has yet to read the global.
C11_DumpOnlyOfHydrated ==
    /\ (renders = 1 /\ display.rendered) =>
          /\ ~display.client
          /\ display.dump = <<>>
          /\ display.sentence = ""
          /\ display.apiUrl = Str(DefaultApiUrl)
    /\ isClient => pagePc = "hydrated"
    /\ (display.client \/ display.dump # <<>> \/ display.sentence # "") =>
          /\ pagePc = "hydrated"
          /\ renders > 1
          /\ display.dumpOf = config
          /\ display.dump = JsonOf(heap, config)
          /\ display.sentence \in {DefaultSentence, RuntimeSentence}
          /\ IsAppConfigShape(heap, display.dumpOf)
    /\ pagePc = "mounted" => (display.rendered /\ ~display.client)

C11_Witness ==
    /\ pagePc = "hydrated"
    /\ renders = 2
    /\ isClient
    /\ display.client
    /\ display.dumpOf = Ref("win")
    /\ display.apiUrl = Str(<<"https://x">>)
    /\ display.sentence = RuntimeSentence
    /\ Len(display.dump) = 5

====
